---------------------------- MODULE Spec2Model ----------------------------
(***************************************************************************)
(* Stockpile / Comercial Garcia inventory application.                     *)
(*                                                                         *)
(* Access Guard  : class AuthenticationSystem (src/js/app.js) with the     *)
(*                 page-level logout handler of src/js/main.js.            *)
(* Catalog Ledger: class InventoryManager (src/unnamed/part_000) over the  *)
(*                 IndexedDB wrapper InventoryDB (src/js/database.js),     *)
(*                 driven by the forms of src/js/ui-controller.js.         *)
(*                                                                         *)
(* Time is counted in ticks of MsPerTick milliseconds from the moment the  *)
(* page was first loaded.  A timer delay given in milliseconds is rounded  *)
(* up to whole ticks.  A pending timer fires before time moves past its    *)
(* deadline.                                                               *)
(***************************************************************************)
EXTENDS Integers, Sequences, FiniteSets, TLC

\* JavaScript's null for a name; an absent value of any other kind is the
\* empty sequence, a present one the sequence of that one value.
NULL == "null"

None == << >>

Some(v) == << v >>

Val(o) == o[1]

\* ------------------------------------------------------------------------
\* Bounds of the model
\* ------------------------------------------------------------------------
MaxTime == 7

\* ------------------------------------------------------------------------
\* Time base
\* ------------------------------------------------------------------------
MsPerTick == 5 * 60 * 1000

DelayTicks(ms) == (ms + MsPerTick - 1) \div MsPerTick

\* ------------------------------------------------------------------------
\* Access Guard: configuration (AuthenticationSystem constructor)
\* ------------------------------------------------------------------------
sessionTimeout == DelayTicks(30 * 60 * 1000)

maxAttempts == 3

lockoutTime == DelayTicks(15 * 60 * 1000)

activityDelay == DelayTicks(30000)

checkInterval == DelayTicks(60000)

\* Strings are sequences of one-character strings.
UpperLetters ==
    << "A","B","C","D","E","F","G","H","I","J","K","L","M",
       "N","O","P","Q","R","S","T","U","V","W","X","Y","Z" >>

LowerLetters ==
    << "a","b","c","d","e","f","g","h","i","j","k","l","m",
       "n","o","p","q","r","s","t","u","v","w","x","y","z" >>

Digits == << "0","1","2","3","4","5","6","7","8","9" >>

IndexOf(seq, c) == CHOOSE i \in DOMAIN seq : seq[i] = c

IsIn(seq, c) == \E i \in DOMAIN seq : seq[i] = c

\* String.prototype.charCodeAt for the characters the model uses.
charCodeAt(c) ==
    IF IsIn(Digits, c) THEN 47 + IndexOf(Digits, c)
    ELSE IF IsIn(UpperLetters, c) THEN 64 + IndexOf(UpperLetters, c)
    ELSE IF IsIn(LowerLetters, c) THEN 96 + IndexOf(LowerLetters, c)
    ELSE IF c = "-" THEN 45
    ELSE IF c = "_" THEN 95
    ELSE 32

\* A 32-bit word is kept as its two 16-bit halves, so that no intermediate
\* value leaves the range of the checker's integers.
Half == 256 * 256

\* One round of the loop of hashPassword:
\*   hash = ((hash << 5) - hash) + char;  hash = hash & hash
\* that is 31 * hash + char reduced to 32 bits.
HashStep(w, code) ==
    LET lo == w.lo * 31 + code
        hi == w.hi * 31 + (lo \div Half)
    IN  [hi |-> hi % Half, lo |-> lo % Half]

RECURSIVE HashLoop(_, _, _)
HashLoop(password, i, w) ==
    IF i > Len(password) THEN w
    ELSE HashLoop(password, i + 1, HashStep(w, charCodeAt(password[i])))

\* Math.abs of the word read as a signed 32-bit integer.
AbsWord(w) ==
    IF w.hi < Half \div 2 THEN w
    ELSE IF w.lo = 0 THEN [hi |-> Half - w.hi, lo |-> 0]
    ELSE [hi |-> Half - 1 - w.hi, lo |-> Half - w.lo]

HexDigit(d) == IF d < 10 THEN Digits[d + 1] ELSE LowerLetters[d - 9]

\* Number.prototype.toString(16) of a number below 65536, without padding.
RECURSIVE Hex(_)
Hex(n) == IF n < 16 THEN << HexDigit(n) >> ELSE Hex(n \div 16) \o << HexDigit(n % 16) >>

\* The four hexadecimal digits of a 16-bit half, with leading zeros.
Hex4(n) ==
    << HexDigit(n \div 4096), HexDigit((n \div 256) % 16),
       HexDigit((n \div 16) % 16), HexDigit(n % 16) >>

ToHexString(w) == IF w.hi = 0 THEN Hex(w.lo) ELSE Hex(w.hi) \o Hex4(w.lo)

hashPassword(password) ==
    ToHexString(AbsWord(HashLoop(password, 1, [hi |-> 0, lo |-> 0])))

\* ------------------------------------------------------------------------
\* Access Guard: state
\* ------------------------------------------------------------------------
VARIABLES
    now,              \* Date.now(), in ticks
    isAuthenticated,  \* this.isAuthenticated
    currentUser,      \* this.currentUser
    sessionTimer,     \* deadline of the setTimeout held in this.sessionTimer
    activityTimeout,  \* deadline of the pending debounce timer of handleActivity
    nextCheck,        \* next firing of the setInterval of setupSessionManagement
    lsSession,        \* localStorage[sessionKey]
    lsAttempts,       \* localStorage[attemptsKey]
    lsLockout,        \* localStorage[lockoutKey]
    authResult,       \* what the last authenticate call returned
    lockoutCleared,   \* the last step ran the expiry branch of isLockedOut()
    unrecordedSince   \* time of the oldest activity signal not yet written to the session

authVars ==
    << now, isAuthenticated, currentUser, sessionTimer, activityTimeout, nextCheck,
       lsSession, lsAttempts, lsLockout, authResult, lockoutCleared, unrecordedSince >>

\* The passwords of the default credential table.
PasswordOf ==
    [ admin   |-> << "S","T","O","C","K","2","0","2","4" >>,
      manager |-> << "M","A","N","A","G","E","2","0","2","4" >>,
      clerk   |-> << "C","L","E","R","K","2","0","2","4" >> ]

credentials == [u \in DOMAIN PasswordOf |-> hashPassword(PasswordOf[u])]

\* What the login form can submit.
Usernames == {"admin", "clerk", "guest"}

Passwords == {PasswordOf["admin"], PasswordOf["clerk"], << "W","R","O","N","G" >>}

\* isLockedOut(): the answer, and localStorage as the call leaves it.
isLockedOutInverted == lsLockout # None /\ now > Val(lsLockout)

isLockedOut == lsLockout # None /\ now < Val(lsLockout)

LockoutExpired == lsLockout # None /\ ~(now < Val(lsLockout))

AttemptsKeptOnExpiry == lsAttempts

AttemptsAfterLockoutCheck == IF LockoutExpired THEN None ELSE lsAttempts

LockoutAfterLockoutCheck == IF LockoutExpired THEN None ELSE lsLockout

\* this.credentials[username] && this.credentials[username] === hashedPassword
CredentialsMatch(username, password) ==
    /\ username \in DOMAIN credentials
    /\ credentials[username] = hashPassword(password)

\* newAttempts >= this.maxAttempts
ReachedMaxOffByOne(newAttempts) == newAttempts > maxAttempts

ReachedMax(newAttempts) == newAttempts >= maxAttempts

\* Date.now() + this.lockoutTime
LockoutEnd == now + lockoutTime

\* createSession(): the record stored under sessionKey (the random sessionId is left out).
NewSessionStaleActivity(user) == [user |-> user, loginTime |-> now, lastActivity |-> 0]

NewSession(user) == [user |-> user, loginTime |-> now, lastActivity |-> now]

AuthInit ==
    /\ now = 0
    /\ isAuthenticated = FALSE
    /\ currentUser = NULL
    /\ sessionTimer = None
    /\ activityTimeout = None
    /\ nextCheck = checkInterval
    /\ lsSession = None
    /\ lsAttempts = None
    /\ lsLockout = None
    /\ authResult = None
    /\ lockoutCleared = FALSE
    /\ unrecordedSince = None

\* ------------------------------------------------------------------------
\* Access Guard: operations
\* ------------------------------------------------------------------------
AuthResult(success, locked, attempts, remainingAttempts) ==
    Some([success |-> success, isLockedOut |-> locked,
          attempts |-> attempts, remainingAttempts |-> remainingAttempts])

authenticate(username, password) ==
    /\ lockoutCleared' = (~isLockedOut /\ LockoutExpired)
    /\ IF isLockedOut
       THEN /\ authResult' = AuthResult(FALSE, TRUE, None, None)
            /\ UNCHANGED << isAuthenticated, currentUser, sessionTimer, lsSession,
                            lsAttempts, lsLockout, unrecordedSince >>
       ELSE LET attempts == IF AttemptsAfterLockoutCheck = None THEN 0
                            ELSE Val(AttemptsAfterLockoutCheck)
                newAttempts == attempts + 1
            IN  IF CredentialsMatch(username, password)
                THEN /\ isAuthenticated' = TRUE
                     /\ currentUser' = username
                     /\ lsSession' = Some(NewSession(username))
                     /\ sessionTimer' = Some(now + sessionTimeout)
                     /\ lsAttempts' = None
                     /\ lsLockout' = None
                     /\ unrecordedSince' = None
                     /\ authResult' = AuthResult(TRUE, FALSE, None, None)
                ELSE /\ lsAttempts' = Some(newAttempts)
                     /\ IF ReachedMax(newAttempts)
                        THEN /\ lsLockout' = Some(LockoutEnd)
                             /\ authResult' = AuthResult(FALSE, TRUE, Some(newAttempts), None)
                        ELSE /\ lsLockout' = LockoutAfterLockoutCheck
                             /\ authResult' = AuthResult(FALSE, FALSE, Some(newAttempts),
                                                         Some(maxAttempts - newAttempts))
                     /\ UNCHANGED << isAuthenticated, currentUser, sessionTimer, lsSession,
                                     unrecordedSince >>
    /\ UNCHANGED << now, activityTimeout, nextCheck >>

Authenticate == \E username \in Usernames, password \in Passwords : authenticate(username, password)

\* logout(auto): the effect on the guard's fields and on localStorage.
logoutEffect ==
    /\ isAuthenticated' = FALSE
    /\ currentUser' = NULL
    /\ lsSession' = None
    /\ lsAttempts' = None
    /\ sessionTimer' = None
    /\ unrecordedSince' = None

logout(auto) ==
    /\ logoutEffect
    /\ authResult' = None
    /\ lockoutCleared' = FALSE
    /\ UNCHANGED << now, activityTimeout, nextCheck, lsLockout >>

Logout == logout(FALSE)

\* handleLogout of the page: the guard's logout, then localStorage.clear().
handleLogout ==
    /\ logoutEffect
    /\ lsLockout' = None
    /\ authResult' = None
    /\ lockoutCleared' = FALSE
    /\ UNCHANGED << now, activityTimeout, nextCheck >>

\* The callback of startSessionTimer's setTimeout.
SessionTimerFire ==
    /\ sessionTimer # None
    /\ now >= Val(sessionTimer)
    /\ logout(TRUE)

\* updateSessionActivity(): the record stored under sessionKey afterwards.
updateSessionActivity(session) ==
    IF session = None THEN None ELSE Some([Val(session) EXCEPT !.lastActivity = now])

\* handleActivity: an activity event of the document.
Activity ==
    /\ IF isAuthenticated
       THEN /\ activityTimeout' = Some(now + activityDelay)
            /\ unrecordedSince' = IF unrecordedSince = None THEN Some(now) ELSE unrecordedSince
       ELSE UNCHANGED << activityTimeout, unrecordedSince >>
    /\ authResult' = None
    /\ lockoutCleared' = FALSE
    /\ UNCHANGED << now, isAuthenticated, currentUser, sessionTimer, nextCheck,
                    lsSession, lsAttempts, lsLockout >>

\* The callback of handleActivity's setTimeout.
ActivityTimeoutFire ==
    /\ activityTimeout # None
    /\ now >= Val(activityTimeout)
    /\ activityTimeout' = None
    /\ lsSession' = updateSessionActivity(lsSession)
    /\ unrecordedSince' = IF lsSession = None THEN unrecordedSince ELSE None
    /\ authResult' = None
    /\ lockoutCleared' = FALSE
    /\ UNCHANGED << now, isAuthenticated, currentUser, sessionTimer, nextCheck,
                    lsAttempts, lsLockout >>

\* The session is older than the timeout allows.
SessionExpiredLate(session) == now - Val(session).lastActivity > sessionTimeout

SessionExpired(session) == now - Val(session).lastActivity >= sessionTimeout

\* The callback of setupSessionManagement's setInterval.
SessionCheck ==
    /\ now >= nextCheck
    /\ nextCheck' = nextCheck + checkInterval
    /\ IF isAuthenticated /\ lsSession # None /\ SessionExpired(lsSession)
       THEN logoutEffect
       ELSE UNCHANGED << isAuthenticated, currentUser, lsSession, lsAttempts,
                         sessionTimer, unrecordedSince >>
    /\ authResult' = None
    /\ lockoutCleared' = FALSE
    /\ UNCHANGED << now, activityTimeout, lsLockout >>

\* new AuthenticationSystem() on a page load: constructor, checkExistingSession,
\* setupSessionManagement.  The timers of the page before are gone.
Reload ==
    /\ activityTimeout' = None
    /\ nextCheck' = now + checkInterval
    /\ unrecordedSince' = None
    /\ IF lsSession # None /\ ~SessionExpired(lsSession)
       THEN /\ isAuthenticated' = TRUE
            /\ currentUser' = Val(lsSession).user
            /\ lsSession' = updateSessionActivity(lsSession)
            /\ sessionTimer' = Some(now + sessionTimeout)
            /\ lsAttempts' = lsAttempts
       ELSE /\ isAuthenticated' = FALSE
            /\ currentUser' = NULL
            /\ sessionTimer' = None
            /\ lsSession' = None
            /\ lsAttempts' = IF lsSession # None THEN None ELSE lsAttempts
    /\ authResult' = None
    /\ lockoutCleared' = FALSE
    /\ UNCHANGED << now, lsLockout >>

\* Time passes.  No pending timer is overtaken.
Tick ==
    /\ now < MaxTime
    /\ sessionTimer # None => now < Val(sessionTimer)
    /\ activityTimeout # None => now < Val(activityTimeout)
    /\ now < nextCheck
    /\ now' = now + 1
    /\ authResult' = None
    /\ lockoutCleared' = FALSE
    /\ UNCHANGED << isAuthenticated, currentUser, sessionTimer, activityTimeout, nextCheck,
                    lsSession, lsAttempts, lsLockout, unrecordedSince >>

\* getUserPermissions(): the defaults, then the switch on this.currentUser.
DefaultPermissions ==
    [ canViewInventory |-> TRUE, canAddProducts |-> FALSE, canEditProducts |-> FALSE,
      canDeleteProducts |-> FALSE, canProcessSales |-> TRUE, canRestock |-> FALSE,
      canExportData |-> FALSE, canImportData |-> FALSE, canViewReports |-> TRUE ]

PermissionsOf(user) ==
    IF user = "admin" THEN [key \in DOMAIN DefaultPermissions |-> TRUE]
    ELSE IF user = "manager"
         THEN [DefaultPermissions EXCEPT !.canAddProducts = TRUE, !.canEditProducts = TRUE,
                                         !.canRestock = TRUE, !.canExportData = TRUE,
                                         !.canImportData = TRUE]
    ELSE IF user = "clerk"
         THEN [DefaultPermissions EXCEPT !.canProcessSales = TRUE, !.canViewReports = FALSE]
    ELSE DefaultPermissions

getUserPermissions == PermissionsOf(currentUser)

\* ------------------------------------------------------------------------
\* Catalog Ledger: bounds and inputs
\* ------------------------------------------------------------------------
\* createProduct is not called once nextId has passed MaxId.
MaxId == 2

\* A sale, restock or adjustment that would leave a product's quantity outside
\* -MaxQuantity .. MaxQuantity is not explored.
MaxQuantity == 2

\* A sale that would leave more than MaxSales records in the sales store is not
\* explored.
MaxSales == 1

TOR001 == << "T","O","R","0","0","1" >>

BarcodeTOR == << "1","2","3","4","5","6","7","8","9","0","1","2","3" >>

\* String.prototype.toUpperCase
UpperOf == [c \in {LowerLetters[i] : i \in DOMAIN LowerLetters} |->
               UpperLetters[IndexOf(LowerLetters, c)]]

UpperChar(c) == IF c \in DOMAIN UpperOf THEN UpperOf[c] ELSE c

toUpperCase(str) == [i \in 1..Len(str) |-> UpperChar(str[i])]

\* String.prototype.trim
RECURSIVE TrimLeft(_)
TrimLeft(str) == IF str # << >> /\ Head(str) = " " THEN TrimLeft(Tail(str)) ELSE str

RECURSIVE TrimRight(_)
TrimRight(str) ==
    IF str # << >> /\ str[Len(str)] = " " THEN TrimRight(SubSeq(str, 1, Len(str) - 1)) ELSE str

trim(str) == TrimRight(TrimLeft(str))

\* ------------------------------------------------------------------------
\* Catalog Ledger: state
\* ------------------------------------------------------------------------
VARIABLES
    inventory,      \* InventoryManager.inventory: the in-memory list of products
    nextId,         \* InventoryManager.nextId
    dbProducts,     \* object store 'products', keyed by id
    dbSales,        \* object store 'sales', in key order
    emitted,        \* the events the last operation emitted, in order
    lastError       \* the error the last operation threw, NoError when it returned

ledgerVars == << inventory, nextId, dbProducts, dbSales, emitted, lastError >>

\* A product record.  supplier, createdAt and updatedAt are left out: no rule of
\* the ledger reads them.  Prices are in cents.
Product(id, sku, name, category, price, quantity, minStock, barcode) ==
    [ id |-> id, sku |-> sku, name |-> name, category |-> category, price |-> price,
      quantity |-> quantity, minStock |-> minStock, barcode |-> barcode ]

\* The store the application starts on: the first product of the sample data
\* (its name cut short), the others deleted and its stock run down by earlier
\* sessions.
StoredTOR ==
    Product(1, TOR001, << "T","o","r","n","i","l","l","o" >>, "Tornillos y Pernos",
            25, 2, 1, Some(BarcodeTOR))

\* The object store as a function from the keys in use to the records.
StoreOf(products) ==
    [id \in {products[i].id : i \in DOMAIN products} |->
        LET i == CHOOSE i \in DOMAIN products : products[i].id = id IN products[i]]

\* IDBObjectStore.getAll(): the records in key order.
RECURSIVE InKeyOrder(_, _)
InKeyOrder(store, ids) ==
    IF ids = {} THEN << >>
    ELSE LET least == CHOOSE id \in ids : \A other \in ids : id <= other
         IN  << store[least] >> \o InKeyOrder(store, ids \ {least})

getAllProducts(store) == InKeyOrder(store, DOMAIN store)

\* Array.prototype.find: the first of the elements that pass the test, hits
\* being the places of those that pass.
FindFirst(seq, hits) ==
    IF hits = {} THEN None ELSE Some(seq[CHOOSE i \in hits : \A j \in hits : i <= j])

\* IDBIndex.get(key): the record with the least primary key among those whose
\* indexed field is the key.
IndexGetSku(store, sku) ==
    LET records == getAllProducts(store)
    IN  FindFirst(records, {i \in DOMAIN records : records[i].sku = sku})

IndexGetBarcode(store, barcode) ==
    LET records == getAllProducts(store)
    IN  FindFirst(records, {i \in DOMAIN records : records[i].barcode = Some(barcode)})

\* The unique index 'sku' refuses a record whose sku another key already holds.
SkuConstraintOk(store, product) ==
    \A id \in DOMAIN store : store[id].sku = product.sku => id = product.id

\* IDBObjectStore.add: the key must be new.
DbAddOk(store, product) == product.id \notin DOMAIN store /\ SkuConstraintOk(store, product)

\* IDBObjectStore.put
DbPutOk(store, product) == SkuConstraintOk(store, product)

DbWrite(store, product) ==
    [id \in DOMAIN store \cup {product.id} |-> IF id = product.id THEN product ELSE store[id]]

DbDelete(store, id) == [k \in DOMAIN store \ {id} |-> store[k]]

\* InventoryManager.getProductBySKU, getProductByBarcode, findProduct: the
\* product object found, and whether it is the object held in the in-memory list.
MemBySku(sku) ==
    LET upper == toUpperCase(sku)
    IN  FindFirst(inventory, {i \in DOMAIN inventory : inventory[i].sku = upper})

MemByBarcode(barcode) ==
    FindFirst(inventory, {i \in DOMAIN inventory : inventory[i].barcode = Some(barcode)})

getProductBySKU(sku) ==
    LET inMemory == MemBySku(sku) IN
    IF inMemory # None THEN inMemory ELSE IndexGetSku(dbProducts, toUpperCase(sku))

getProductByBarcode(barcode) ==
    LET inMemory == MemByBarcode(barcode) IN
    IF inMemory # None THEN inMemory ELSE IndexGetBarcode(dbProducts, barcode)

findProduct(identifier) ==
    LET bySku == MemBySku(identifier) IN
    IF bySku # None THEN bySku ELSE getProductByBarcode(identifier)

\* The product found is an element of the in-memory list (and a change of its
\* fields is a change of the list).
InMemory(identifier) == MemBySku(identifier) # None \/ MemByBarcode(identifier) # None

\* The in-memory list with the entry of product.id replaced (findIndex, then
\* assignment); unchanged when no entry has that id.
ReplaceInMemory(list, product) ==
    IF \E i \in DOMAIN list : list[i].id = product.id
    THEN LET index == CHOOSE i \in DOMAIN list :
                         list[i].id = product.id /\ \A j \in 1..(i - 1) : list[j].id # product.id
         IN  [list EXCEPT ![index] = product]
    ELSE list

\* The in-memory list after a field of the object found was assigned: the
\* object is the list's own element when it was found there.
MutateInMemory(list, old, new) ==
    IF \E i \in DOMAIN list : list[i] = old
    THEN LET index == CHOOSE i \in DOMAIN list : list[i] = old /\ \A j \in 1..(i - 1) : list[j] # old
         IN  [list EXCEPT ![index] = new]
    ELSE list

\* The errors an operation throws, by their message; ConstraintError is the
\* error of a rejected IndexedDB request.
NoError == "none"

NotFound == "Producto no encontrado"

InsufficientStock == "Stock insuficiente"

NegativeQuantity == "La cantidad no puede ser negativa"

NegativePrice == "El precio no puede ser negativo"

NegativeMinStock == "El stock minimo no puede ser negativo"

RequiredField == "Campo requerido"

ShortSku == "El SKU debe tener al menos 3 caracteres"

ShortName == "El nombre debe tener al menos 3 caracteres"

DuplicateSku == "Ya existe un producto con el SKU"

DuplicateBarcode == "Ya existe un producto con el codigo de barras"

ConstraintError == "ConstraintError"

LedgerInit ==
    /\ dbProducts = StoreOf(<< StoredTOR >>)
    /\ dbSales = << >>
    /\ inventory = getAllProducts(dbProducts)
    /\ nextId = 2
    /\ emitted = << >>
    /\ lastError = NoError

\* ------------------------------------------------------------------------
\* Catalog Ledger: operations
\* ------------------------------------------------------------------------
\* An operation that throws before it has changed anything.
Fail(error) ==
    /\ lastError' = error
    /\ emitted' = << >>
    /\ UNCHANGED << inventory, dbProducts, dbSales >>

\* What parseFloat and parseInt give for a text that is not a number (an empty
\* field among them): a value apart from every number of the model.
NaN == -999

\* a < b as JavaScript compares numbers: false when either is NaN.
Lt(a, b) == a # NaN /\ b # NaN /\ a < b

\* The first check that fails decides the error.  price, quantity and minStock
\* are numbers or NaN in every product of the model (never undefined, null or
\* ''), so only the text fields can be empty.
validateProduct(product) ==
    IF product.sku = << >> \/ product.name = << >> \/ product.category = "" THEN RequiredField
    ELSE IF Lt(product.price, 0) THEN NegativePrice
    ELSE IF Lt(product.quantity, 0) THEN NegativeQuantity
    ELSE IF Lt(product.minStock, 0) THEN NegativeMinStock
    ELSE IF Len(product.sku) < 3 THEN ShortSku
    ELSE IF Len(product.name) < 3 THEN ShortName
    ELSE NoError

\* The id is this.nextId++: the caller moves nextId on.
createProduct(productData) ==
    Product(nextId, toUpperCase(trim(productData.sku)), trim(productData.name),
            productData.category, productData.price, productData.quantity,
            productData.minStock,
            IF productData.barcode # << >> THEN Some(trim(productData.barcode)) ELSE None)

\* A barcode that is neither null nor the empty string.
Truthy(barcode) == barcode # None /\ Val(barcode) # << >>

addProductError(product) ==
    IF validateProduct(product) # NoError THEN validateProduct(product)
    ELSE IF getProductBySKU(product.sku) # None THEN DuplicateSku
    ELSE IF Truthy(product.barcode) /\ getProductByBarcode(Val(product.barcode)) # None
         THEN DuplicateBarcode
    ELSE IF ~DbAddOk(dbProducts, product) THEN ConstraintError
    ELSE NoError

addProduct(product) ==
    IF addProductError(product) = NoError
    THEN /\ dbProducts' = DbWrite(dbProducts, product)
         /\ inventory' = Append(inventory, product)
         /\ emitted' = << "productAdded" >>
         /\ lastError' = NoError
         /\ UNCHANGED dbSales
    ELSE Fail(addProductError(product))

\* updateProduct as processSale, restockProduct and adjustStock call it: list is
\* the in-memory list after the caller assigned the new quantity to the object
\* it found, event is what the caller emits once updateProduct has returned.
updateProduct(list, product, event) ==
    IF DbPutOk(dbProducts, product)
    THEN /\ dbProducts' = DbWrite(dbProducts, product)
         /\ inventory' = ReplaceInMemory(list, product)
         /\ emitted' = << "productUpdated", event >>
         /\ lastError' = NoError
    ELSE /\ dbProducts' = dbProducts
         /\ inventory' = list
         /\ emitted' = << >>
         /\ lastError' = ConstraintError

StockShortOffByOne(product, quantity) == product.quantity + 1 < quantity

StockShort(product, quantity) == product.quantity < quantity

SaleTotal(product, quantity) == product.price * quantity

\* The sale record; its date is left out, and its key is its place in dbSales.
Sale(product, quantity) ==
    [ productId |-> product.id, sku |-> product.sku, name |-> product.name,
      quantity |-> quantity, unitPrice |-> product.price,
      total |-> SaleTotal(product, quantity) ]

\* processSale once findProduct has returned found.
processSaleOf(found, quantity) ==
    /\ UNCHANGED nextId
    /\ IF found = None THEN Fail(NotFound)
       ELSE IF StockShort(Val(found), quantity) THEN Fail(InsufficientStock)
       ELSE LET product == [Val(found) EXCEPT !.quantity = @ - quantity] IN
            /\ updateProduct(MutateInMemory(inventory, Val(found), product), product,
                             "saleProcessed")
            /\ dbSales' = IF DbPutOk(dbProducts, product)
                          THEN Append(dbSales, Sale(product, quantity))
                          ELSE dbSales

processSale(identifier, quantity) == processSaleOf(findProduct(identifier), quantity)

\* The error of a request the store cannot carry out for want of room.
QuotaExceeded == "QuotaExceededError"

\* processSale when db.addSale rejects: updateProduct has returned by then, so
\* the product is written and productUpdated is out; the sale record is not
\* written and saleProcessed is not emitted.
processSaleUnrecorded(identifier, quantity) ==
    LET found == findProduct(identifier) IN
    /\ UNCHANGED << nextId, dbSales >>
    /\ IF found = None THEN Fail(NotFound)
       ELSE IF StockShort(Val(found), quantity) THEN Fail(InsufficientStock)
       ELSE LET product == [Val(found) EXCEPT !.quantity = @ - quantity]
                list == MutateInMemory(inventory, Val(found), product)
            IN  IF DbPutOk(dbProducts, product)
                THEN /\ dbProducts' = DbWrite(dbProducts, product)
                     /\ inventory' = ReplaceInMemory(list, product)
                     /\ emitted' = << "productUpdated" >>
                     /\ lastError' = QuotaExceeded
                ELSE /\ dbProducts' = dbProducts
                     /\ inventory' = list
                     /\ emitted' = << >>
                     /\ lastError' = ConstraintError

restockProduct(identifier, quantity) ==
    LET found == findProduct(identifier) IN
    /\ UNCHANGED nextId
    /\ IF found = None THEN Fail(NotFound)
       ELSE LET product == [Val(found) EXCEPT !.quantity = @ + quantity] IN
            /\ updateProduct(MutateInMemory(inventory, Val(found), product), product,
                             "productRestocked")
            /\ UNCHANGED dbSales

NegativeStockOffByOne(product, adjustment) == product.quantity + adjustment < -1

\* newQuantity < 0
NegativeStock(product, adjustment) == product.quantity + adjustment < 0

\* this.inventory.find(p => p.id === productId)
FindById(productId) ==
    FindFirst(inventory, {i \in DOMAIN inventory : inventory[i].id = productId})

adjustStock(productId, adjustment) ==
    LET found == FindById(productId)
    IN  /\ UNCHANGED nextId
        /\ IF found = None THEN Fail(NotFound)
           ELSE IF NegativeStock(Val(found), adjustment) THEN Fail(NegativeQuantity)
           ELSE LET product == [Val(found) EXCEPT !.quantity = @ + adjustment] IN
                /\ updateProduct(MutateInMemory(inventory, Val(found), product), product,
                                 "stockAdjusted")
                /\ UNCHANGED dbSales

deleteProduct(productId) ==
    /\ UNCHANGED nextId
    /\ IF \E i \in DOMAIN inventory : inventory[i].id = productId
       THEN /\ dbProducts' = DbDelete(dbProducts, productId)
            /\ inventory' = SelectSeq(inventory, LAMBDA p : p.id # productId)
            /\ emitted' = << "productDeleted" >>
            /\ lastError' = NoError
            /\ UNCHANGED dbSales
       ELSE Fail(NotFound)

\* InventoryDB.importData after both stores were cleared: the products are added
\* one by one, and the first request the store rejects ends the import.
RECURSIVE AddAll(_, _)
AddAll(store, products) ==
    IF products = << >> THEN [store |-> store, ok |-> TRUE]
    ELSE IF DbAddOk(store, Head(products))
         THEN AddAll(DbWrite(store, Head(products)), Tail(products))
         ELSE [store |-> store, ok |-> FALSE]

MaxIdOf(list) == CHOOSE id \in {list[i].id : i \in DOMAIN list} :
                    \A i \in DOMAIN list : list[i].id <= id

\* data.products && Array.isArray(data.products), and the same for data.sales: a
\* list that is absent is skipped.
ProductsOf(data) == IF "products" \in DOMAIN data THEN data.products ELSE << >>

SalesOf(data) == IF "sales" \in DOMAIN data THEN data.sales ELSE << >>

importData(data) ==
    LET imported == AddAll(<< >>, ProductsOf(data)) IN
    /\ dbProducts' = imported.store
    /\ IF imported.ok
       THEN /\ dbSales' = SalesOf(data)
            /\ inventory' = getAllProducts(imported.store)
            /\ nextId' = IF getAllProducts(imported.store) # << >>
                         THEN MaxIdOf(getAllProducts(imported.store)) + 1
                         ELSE nextId
            /\ emitted' = << "dataImported" >>
            /\ lastError' = NoError
       ELSE /\ dbSales' = << >>
            /\ emitted' = << >>
            /\ lastError' = ConstraintError
            /\ UNCHANGED << inventory, nextId >>

\* ------------------------------------------------------------------------
\* Catalog Ledger: the call sites
\* ------------------------------------------------------------------------
\* What the forms and prompts are filled with.  A quantity field's text is taken
\* as the integer parseInt reads from it.
FormQuantities == {-2, 1, 2}

FormIdentifiers ==
    { << "t","o","r","0","0","1"," " >>, BarcodeTOR, << "M","A","R","0","0","1" >> }

FormProducts ==
    [ sku : { << " ","t","o","r","0","0","1" >> },
      name : { << "T","o","r","n","i","l","l","o"," " >> },
      category : { "Tornillos y Pernos" },
      price : { 25 },
      quantity : { -1, 1 },
      minStock : { 1 },
      barcode : { << >>, BarcodeTOR } ]

ProductIds == 1..MaxId

\* A backup as exportData writes it, a file whose product has its SKU in lower
\* case, and a file that lists one product twice.
DocBackup == [ products |-> << StoredTOR >>, sales |-> << >> ]

DocLowerCase ==
    [ products |-> << [StoredTOR EXCEPT !.sku = << "t","o","r","0","0","1" >>] >>,
      sales |-> << >> ]

DocTwice == [ products |-> << StoredTOR, StoredTOR >>, sales |-> << >> ]

\* A JSON file that is not a backup: it has no products list.
DocNoProducts == [ sales |-> << >> ]

ImportFiles == { DocBackup, DocLowerCase, DocTwice, DocNoProducts }

\* The part of the state space the model explores.
WithinBounds ==
    /\ \A i \in DOMAIN inventory : inventory[i].quantity \in -MaxQuantity..MaxQuantity
    /\ \A id \in DOMAIN dbProducts : dbProducts[id].quantity \in -MaxQuantity..MaxQuantity
    /\ Len(dbSales) <= MaxSales

handleAddProduct(productData) ==
    /\ nextId' = nextId + 1
    /\ addProduct(createProduct(productData))

HandleAddProduct ==
    /\ nextId <= MaxId
    /\ \E productData \in FormProducts : handleAddProduct(productData)

\* The add-product form with fields left empty, too short or negative; an empty
\* number field reads as NaN.
FormFields ==
    [ sku : { << " ","m","a","r","0","0","1" >>, << "a","b"," " >>, << " " >> },
      name : { << "T","o","r","n","i","l","l","o"," " >>, << "a","b" >> },
      category : { "Tornillos y Pernos", "" },
      price : { 25, -1, NaN },
      quantity : { 1, -1, NaN },
      minStock : { 1, -1, NaN },
      barcode : { << >> } ]

SubmitAddProduct ==
    /\ nextId <= MaxId
    /\ \E productData \in FormFields : handleAddProduct(productData)

handleSale(identifier, quantity) == processSale(trim(identifier), quantity)

HandleSale ==
    /\ \E identifier \in FormIdentifiers, quantity \in FormQuantities :
          handleSale(identifier, quantity)
    /\ WithinBounds'

performQuickSale(barcode, quantity) ==
    IF trim(barcode) = << >> \/ quantity <= 0
    THEN UNCHANGED ledgerVars
    ELSE processSale(trim(barcode), quantity)

\* The sale form submitted while the sales store takes no more records.
HandleSaleUnrecorded ==
    /\ \E identifier \in FormIdentifiers, quantity \in FormQuantities :
          processSaleUnrecorded(trim(identifier), quantity)
    /\ WithinBounds'

PerformQuickSale ==
    /\ \E barcode \in FormIdentifiers, quantity \in FormQuantities :
          performQuickSale(barcode, quantity)
    /\ WithinBounds'

handleRestock(identifier, quantity) == restockProduct(trim(identifier), quantity)

HandleRestock ==
    /\ \E identifier \in FormIdentifiers, quantity \in FormQuantities :
          handleRestock(identifier, quantity)
    /\ WithinBounds'

quickAdjust(productId, action, quantity) ==
    IF quantity <= 0
    THEN UNCHANGED ledgerVars
    ELSE adjustStock(productId, IF action = "add" THEN quantity ELSE -quantity)

QuickAdjust ==
    /\ \E productId \in ProductIds, action \in {"add", "subtract"},
          quantity \in FormQuantities :
          quickAdjust(productId, action, quantity)
    /\ WithinBounds'

DeleteProduct == \E productId \in ProductIds : deleteProduct(productId)

handleImport(data) == importData(data)

\* The page is loaded again: a new InventoryManager (inventory [], nextId 1) runs
\* init, which loads the store and, when the store is empty, adds the sample data.
init ==
    LET loaded == getAllProducts(dbProducts) IN
    /\ IF loaded # << >>
       THEN /\ inventory' = loaded
            /\ nextId' = MaxIdOf(loaded) + 1
            /\ UNCHANGED dbProducts
       ELSE /\ dbProducts' = StoreOf(<< StoredTOR >>)
            /\ inventory' = << StoredTOR >>
            /\ nextId' = 2
    /\ emitted' = << "inventoryLoaded" >>
    /\ lastError' = NoError
    /\ UNCHANGED dbSales

\* The page is loaded again and db.getAllProducts rejects: loadInventoryFromDB
\* catches the error and sets inventory to [], so init, with nextId still 1, goes
\* on to initializeSampleData.  createProduct gives the sample product id 1 and
\* addProduct, its lookups finding nothing in memory, asks the store.
initFailedLoad ==
    LET seedError ==
          IF IndexGetSku(dbProducts, StoredTOR.sku) # None THEN DuplicateSku
          ELSE IF IndexGetBarcode(dbProducts, BarcodeTOR) # None THEN DuplicateBarcode
          ELSE IF ~DbAddOk(dbProducts, StoredTOR) THEN ConstraintError
          ELSE NoError
    IN  /\ nextId' = 2
        /\ IF seedError = NoError
           THEN /\ dbProducts' = DbWrite(dbProducts, StoredTOR)
                /\ inventory' = << StoredTOR >>
                /\ emitted' = << "productAdded", "inventoryLoaded" >>
           ELSE /\ inventory' = << >>
                /\ emitted' = << >>
                /\ UNCHANGED dbProducts
        /\ lastError' = seedError
        /\ UNCHANGED dbSales

HandleImport == \E data \in ImportFiles : handleImport(data)

\* ------------------------------------------------------------------------
\* The page: which application objects listen on its forms
\* ------------------------------------------------------------------------
\* The most application objects the model lets one page build.
MaxPairs == 2

\* wired: the UIController objects whose listeners are attached to the page's
\* forms (setupEventListeners adds them; nothing removes them).  alive: those
\* among them whose application was not destroyed, so that their
\* InventoryManager still holds its list and an open database.  saleCalls: the
\* processSale calls the latest submission of the sale form made.
VARIABLES wired, alive, saleCalls

pageVars == << wired, alive, saleCalls >>

\* DOMContentLoaded with no session stored: only the login form is set up.
PageInit ==
    /\ wired = 0
    /\ alive = 0
    /\ saleCalls = 0

\* handleLogin on the login overlay: authenticate, and on success
\* showMainApplication, whose initializeMainApp builds a new StockpileApp with
\* its own InventoryManager and UIController.
handleLogin(username, password) ==
    /\ authenticate(username, password)
    /\ wired' = IF isAuthenticated' THEN wired + 1 ELSE wired
    /\ alive' = IF isAuthenticated' THEN alive + 1 ELSE alive
    /\ saleCalls' = 0

HandleLogin ==
    /\ ~isAuthenticated
    /\ wired < MaxPairs
    /\ \E username \in Usernames, password \in Passwords : handleLogin(username, password)

\* The session timer logs the user out: logout(true) shows the login screen and
\* leaves the application object as it is.
AutoLogout ==
    /\ SessionTimerFire
    /\ saleCalls' = 0
    /\ UNCHANGED << wired, alive >>

\* The logout button of the main application: handleLogout destroys the current
\* application (destroy clears caches and closes the database; it removes no
\* listener) and shows the login overlay.
ManualLogout ==
    /\ isAuthenticated
    /\ handleLogout
    /\ alive' = alive - 1
    /\ saleCalls' = 0
    /\ UNCHANGED wired

\* The page is loaded again: a new document, and one application when the
\* stored session is restored.
PageReload ==
    /\ Reload
    /\ wired' = IF isAuthenticated' THEN 1 ELSE 0
    /\ alive' = IF isAuthenticated' THEN 1 ELSE 0
    /\ saleCalls' = 0

\* One submission of the sale form: every listener attached to the form runs
\* its controller's handleSale, which calls processSale of its own manager.
\* What each call does to the ledger is processSale above; here the calls are
\* counted.
SubmitSale ==
    /\ isAuthenticated
    /\ saleCalls' = wired
    /\ authResult' = None
    /\ lockoutCleared' = FALSE
    /\ UNCHANGED << now, isAuthenticated, currentUser, sessionTimer, activityTimeout,
                    nextCheck, lsSession, lsAttempts, lsLockout, unrecordedSince,
                    wired, alive >>

\* The periodic check of the session, which logs out as the timer does.
PageSessionCheck ==
    /\ SessionCheck
    /\ saleCalls' = 0
    /\ UNCHANGED << wired, alive >>

PageTick ==
    /\ Tick
    /\ saleCalls' = 0
    /\ UNCHANGED << wired, alive >>

\* ------------------------------------------------------------------------
\* SecureInventoryManager
\* ------------------------------------------------------------------------
\* SecurityUtils.sanitizeInput: the six characters it replaces, each by its
\* entity; every other character stays.
EscapeChar(c) ==
    IF c = "&" THEN << "&","a","m","p",";" >>
    ELSE IF c = "<" THEN << "&","l","t",";" >>
    ELSE IF c = ">" THEN << "&","g","t",";" >>
    ELSE IF c = "\"" THEN << "&","q","u","o","t",";" >>
    ELSE IF c = "'" THEN << "&","#","x","2","7",";" >>
    ELSE IF c = "/" THEN << "&","#","x","2","F",";" >>
    ELSE << c >>

RECURSIVE sanitizeInput(_)
sanitizeInput(input) ==
    IF input = << >> THEN << >> ELSE EscapeChar(Head(input)) \o sanitizeInput(Tail(input))

\* isNaN(n) ? 0 : Math.max(0, n)
NonNegative(n) == IF n = NaN \/ n < 0 THEN 0 ELSE n

\* The id of an object that has no id property.
Undefined == 0

\* SecurityUtils.sanitizeProductData copies eight fields and no other: the
\* text fields trimmed and escaped (left out when empty or null), the numbers
\* made non-negative.  The result has no id.  The category is one of the
\* model's two atoms, which have nothing to trim or escape.
sanitizeProductData(productData) ==
    [ id |-> Undefined,
      sku |-> sanitizeInput(trim(productData.sku)),
      name |-> sanitizeInput(trim(productData.name)),
      category |-> productData.category,
      price |-> NonNegative(productData.price),
      quantity |-> NonNegative(productData.quantity),
      minStock |-> NonNegative(productData.minStock),
      barcode |-> IF Truthy(productData.barcode)
                  THEN Some(sanitizeInput(trim(Val(productData.barcode)))) ELSE None ]

\* The keys the store's key generator can give to an object stored without
\* an id: above every key in the store; how far above depends on the records
\* earlier sessions stored and deleted.
GeneratedKeys(store) == {key \in 1..(MaxId + 1) : \A id \in DOMAIN store : id < key}

\* No record of the store has the SKU of product: a record stored under a new
\* key passes the unique index.
SkuIsNew(store, product) == \A id \in DOMAIN store : store[id].sku # product.sku

\* SecureInventoryManager.addProduct: InventoryManager.addProduct on the
\* sanitized copy.
secureAddProductError(sanitized) ==
    IF validateProduct(sanitized) # NoError THEN validateProduct(sanitized)
    ELSE IF getProductBySKU(sanitized.sku) # None THEN DuplicateSku
    ELSE IF Truthy(sanitized.barcode) /\ getProductByBarcode(Val(sanitized.barcode)) # None
         THEN DuplicateBarcode
    ELSE IF ~SkuIsNew(dbProducts, sanitized) THEN ConstraintError
    ELSE NoError

secureAddProduct(product) ==
    LET sanitized == sanitizeProductData(product) IN
    IF secureAddProductError(sanitized) = NoError
    THEN /\ \E key \in GeneratedKeys(dbProducts) :
              dbProducts' = DbWrite(dbProducts, [sanitized EXCEPT !.id = key])
         /\ inventory' = Append(inventory, sanitized)
         /\ emitted' = << "productAdded" >>
         /\ lastError' = NoError
         /\ UNCHANGED dbSales
    ELSE Fail(secureAddProductError(sanitized))

\* SecureInventoryManager.updateProduct as processSale calls it (this.updateProduct
\* is the override): the sanitized copy, which has no id, is put into the store
\* under a generated key, and replaces the in-memory entry that has no id.
secureUpdateProduct(list, product, event) ==
    LET sanitized == sanitizeProductData(product) IN
    IF SkuIsNew(dbProducts, sanitized)
    THEN /\ \E key \in GeneratedKeys(dbProducts) :
              dbProducts' = DbWrite(dbProducts, [sanitized EXCEPT !.id = key])
         /\ inventory' = ReplaceInMemory(list, sanitized)
         /\ emitted' = << "productUpdated", event >>
         /\ lastError' = NoError
    ELSE /\ dbProducts' = dbProducts
         /\ inventory' = list
         /\ emitted' = << >>
         /\ lastError' = ConstraintError

\* SecureInventoryManager.processSale: InventoryManager.processSale, whose call
\* of this.updateProduct reaches the override.
secureProcessSale(identifier, quantity) ==
    LET found == findProduct(identifier) IN
    /\ UNCHANGED nextId
    /\ IF found = None THEN Fail(NotFound)
       ELSE IF StockShort(Val(found), quantity) THEN Fail(InsufficientStock)
       ELSE LET product == [Val(found) EXCEPT !.quantity = @ - quantity] IN
            /\ secureUpdateProduct(MutateInMemory(inventory, Val(found), product), product,
                                   "saleProcessed")
            /\ dbSales' = IF SkuIsNew(dbProducts, sanitizeProductData(product))
                          THEN Append(dbSales, Sale(product, quantity))
                          ELSE dbSales

\* SecureInventoryManager.deleteProduct: InventoryManager.deleteProduct, then the
\* audit entry.
secureDeleteProduct(productId) == deleteProduct(productId)

\* The page's handlers on a SecureInventoryManager.
SecureAdd ==
    /\ nextId <= MaxId
    /\ \E productData \in FormFields :
          /\ nextId' = nextId + 1
          /\ secureAddProduct(createProduct(productData))

SecureSale ==
    /\ \E identifier \in FormIdentifiers \cup { << "m","a","r","0","0","1" >> },
          quantity \in FormQuantities :
          secureProcessSale(trim(identifier), quantity)
    /\ WithinBounds'

SecureDelete == \E productId \in ProductIds : secureDeleteProduct(productId)

\* ------------------------------------------------------------------------
\* Two processSale calls of one InventoryManager in flight at once
\* ------------------------------------------------------------------------
\* Each call runs from one await to the next without interruption; between
\* awaits the other call may run.  A request to the store takes effect when it
\* is issued (IndexedDB runs the transactions of one store in the order they
\* were created, and put stores a copy of the object taken at the call); the
\* promise of the request resolves in a later step.
Callers == {1, 2}

SaleQuantities == 1..MaxQuantity

\* calls[c]: where call c stands (pc), its arguments, and its local variable
\* product: held says that product is an element of this.inventory (then its
\* fields are the element's), otherwise product is the object the store gave.
\* started: the product the two calls are for, as it was when they were made.
VARIABLES calls, started

raceVars == << calls, started >>

Idle == [ pc |-> "idle", identifier |-> << >>, quantity |-> 0, held |-> FALSE,
          product |-> None ]

RaceInit ==
    /\ calls = [c \in Callers |-> Idle]
    /\ started = None

Quiet == \A c \in Callers : calls[c].pc = "idle"

\* The sale form is submitted twice before anything has resolved: each
\* processSale runs into findProduct, which looks the product up in memory and,
\* failing that, issues the read of the store by barcode.
submitTwoSales(identifier, first, second) ==
    /\ calls' = [c \in Callers |->
                   [ pc |-> "find", identifier |-> identifier,
                     quantity |-> IF c = 1 THEN first ELSE second,
                     held |-> InMemory(identifier),
                     product |-> findProduct(identifier) ]]
    /\ started' = findProduct(identifier)
    /\ UNCHANGED ledgerVars

SubmitTwoSales ==
    /\ Quiet
    /\ dbSales = << >>
    /\ \E identifier \in FormIdentifiers, first \in SaleQuantities, second \in SaleQuantities :
          submitTwoSales(trim(identifier), first, second)

\* The product of call c as its code sees it now.
ProductOf(c) ==
    IF calls[c].held THEN FindById(Val(calls[c].product).id) ELSE calls[c].product

\* await this.findProduct(identifier) resolves for call c, and the call goes on
\* to its checks, the assignment of the quantity and the put of updateProduct.
FindResolved(c) ==
    LET call == calls[c]
        found == ProductOf(c)
    IN  /\ call.pc = "find"
        /\ UNCHANGED << nextId, started >>
        /\ IF found = None
           THEN /\ calls' = [calls EXCEPT ![c].pc = "failed"]
                /\ Fail(NotFound)
           ELSE IF StockShort(Val(found), call.quantity)
           THEN /\ calls' = [calls EXCEPT ![c].pc = "failed"]
                /\ Fail(InsufficientStock)
           ELSE LET product == [Val(found) EXCEPT !.quantity = @ - call.quantity] IN
                /\ inventory' = IF call.held
                                THEN MutateInMemory(inventory, Val(found), product)
                                ELSE inventory
                /\ dbProducts' = IF DbPutOk(dbProducts, product)
                                 THEN DbWrite(dbProducts, product) ELSE dbProducts
                /\ calls' = [calls EXCEPT ![c].pc = IF DbPutOk(dbProducts, product)
                                                    THEN "put" ELSE "rejected",
                                          ![c].product = Some(product)]
                /\ emitted' = << >>
                /\ UNCHANGED << lastError, dbSales >>

\* The put of call c resolves: updateProduct replaces the in-memory entry and
\* emits productUpdated, and processSale issues the add of the sale record.
PutResolved(c) ==
    LET call == calls[c]
        product == Val(ProductOf(c))
    IN  /\ call.pc = "put"
        /\ inventory' = ReplaceInMemory(inventory, product)
        /\ dbSales' = Append(dbSales, Sale(product, call.quantity))
        /\ emitted' = << "productUpdated" >>
        /\ calls' = [calls EXCEPT ![c].pc = "add"]
        /\ UNCHANGED << nextId, dbProducts, lastError, started >>

\* The put of call c was rejected by the store: processSale rethrows.
PutRejected(c) ==
    /\ calls[c].pc = "rejected"
    /\ calls' = [calls EXCEPT ![c].pc = "failed"]
    /\ lastError' = ConstraintError
    /\ emitted' = << >>
    /\ UNCHANGED << nextId, inventory, dbProducts, dbSales, started >>

\* The add of the sale record resolves: saleProcessed is emitted and the call
\* returns.
AddResolved(c) ==
    /\ calls[c].pc = "add"
    /\ calls' = [calls EXCEPT ![c].pc = "sold"]
    /\ lastError' = NoError
    /\ emitted' = << "saleProcessed" >>
    /\ UNCHANGED << nextId, inventory, dbProducts, dbSales, started >>

FindResolves == \E c \in Callers : FindResolved(c)

PutResolves == \E c \in Callers : PutResolved(c)

PutRejects == \E c \in Callers : PutRejected(c)

AddResolves == \E c \in Callers : AddResolved(c)

Finished == \A c \in Callers : calls[c].pc \in {"failed", "sold"}

\* Both calls have returned and the page is at rest again.
Settle ==
    /\ Finished
    /\ calls' = [c \in Callers |-> Idle]
    /\ started' = None
    /\ UNCHANGED ledgerVars

\* Ledger operations made while no sale is in flight.
QuietDelete == Quiet /\ DeleteProduct /\ UNCHANGED raceVars

QuietImport == Quiet /\ HandleImport /\ UNCHANGED raceVars

QuietAdd == Quiet /\ HandleAddProduct /\ UNCHANGED raceVars

vars == << authVars, ledgerVars, pageVars, raceVars >>

Init == AuthInit /\ LedgerInit /\ PageInit /\ RaceInit

\* The guard runs on its own: the ledger does not move.
AuthNext ==
    \/ Authenticate /\ UNCHANGED << ledgerVars, pageVars, raceVars >>
    \/ Logout /\ UNCHANGED << ledgerVars, pageVars, raceVars >>
    \/ handleLogout /\ UNCHANGED << ledgerVars, pageVars, raceVars >>
    \/ SessionTimerFire /\ UNCHANGED << ledgerVars, pageVars, raceVars >>
    \/ Activity /\ UNCHANGED << ledgerVars, pageVars, raceVars >>
    \/ ActivityTimeoutFire /\ UNCHANGED << ledgerVars, pageVars, raceVars >>
    \/ SessionCheck /\ UNCHANGED << ledgerVars, pageVars, raceVars >>
    \/ Reload /\ UNCHANGED << ledgerVars, pageVars, raceVars >>
    \/ Tick /\ UNCHANGED << ledgerVars, pageVars, raceVars >>

AuthSpec == Init /\ [][AuthNext]_vars

\* The ledger runs on its own: the guard does not move.
LedgerNext ==
    \/ HandleAddProduct /\ UNCHANGED << authVars, pageVars, raceVars >>
    \/ HandleSale /\ UNCHANGED << authVars, pageVars, raceVars >>
    \/ PerformQuickSale /\ UNCHANGED << authVars, pageVars, raceVars >>
    \/ HandleRestock /\ UNCHANGED << authVars, pageVars, raceVars >>
    \/ QuickAdjust /\ UNCHANGED << authVars, pageVars, raceVars >>
    \/ DeleteProduct /\ UNCHANGED << authVars, pageVars, raceVars >>
    \/ HandleImport /\ UNCHANGED << authVars, pageVars, raceVars >>

LedgerSpec == Init /\ [][LedgerNext]_vars

\* The life of the product ids: products are created, adjusted, deleted and
\* imported, and the page is loaded again.
IdNext ==
    \/ HandleAddProduct /\ UNCHANGED << authVars, pageVars, raceVars >>
    \/ QuickAdjust /\ UNCHANGED << authVars, pageVars, raceVars >>
    \/ DeleteProduct /\ UNCHANGED << authVars, pageVars, raceVars >>
    \/ HandleImport /\ UNCHANGED << authVars, pageVars, raceVars >>
    \/ init /\ UNCHANGED << authVars, pageVars, raceVars >>

IdSpec == Init /\ [][IdNext]_vars

\* Sales, restocks and deletions with a sales store that may reject a record.
SaleNext ==
    \/ HandleSale /\ UNCHANGED << authVars, pageVars, raceVars >>
    \/ HandleSaleUnrecorded /\ UNCHANGED << authVars, pageVars, raceVars >>
    \/ HandleRestock /\ UNCHANGED << authVars, pageVars, raceVars >>
    \/ DeleteProduct /\ UNCHANGED << authVars, pageVars, raceVars >>
    \/ HandleImport /\ UNCHANGED << authVars, pageVars, raceVars >>

SaleSpec == Init /\ [][SaleNext]_vars

\* Sessions of one page: logins, logouts by hand and by the timer, reloads, and
\* the sale form.
PageNext ==
    \/ HandleLogin /\ UNCHANGED << ledgerVars, raceVars >>
    \/ AutoLogout /\ UNCHANGED << ledgerVars, raceVars >>
    \/ ManualLogout /\ UNCHANGED << ledgerVars, raceVars >>
    \/ PageReload /\ UNCHANGED << ledgerVars, raceVars >>
    \/ SubmitSale /\ UNCHANGED << ledgerVars, raceVars >>
    \/ PageSessionCheck /\ UNCHANGED << ledgerVars, raceVars >>
    \/ PageTick /\ UNCHANGED << ledgerVars, raceVars >>

PageSpec == Init /\ [][PageNext]_vars

\* Two sales in flight, their awaits resolving in any order.
RaceNext ==
    \/ SubmitTwoSales /\ UNCHANGED << authVars, pageVars >>
    \/ FindResolves /\ UNCHANGED << authVars, pageVars >>
    \/ PutResolves /\ UNCHANGED << authVars, pageVars >>
    \/ PutRejects /\ UNCHANGED << authVars, pageVars >>
    \/ AddResolves /\ UNCHANGED << authVars, pageVars >>
    \/ Settle /\ UNCHANGED << authVars, pageVars >>
    \/ QuietDelete /\ UNCHANGED << authVars, pageVars >>
    \/ QuietImport /\ UNCHANGED << authVars, pageVars >>
    \/ QuietAdd /\ UNCHANGED << authVars, pageVars >>

RaceSpec == Init /\ [][RaceNext]_vars

\* The ledger under a SecureInventoryManager.
SecureNext ==
    \/ SecureAdd /\ UNCHANGED << authVars, pageVars, raceVars >>
    \/ SecureSale /\ UNCHANGED << authVars, pageVars, raceVars >>
    \/ SecureDelete /\ UNCHANGED << authVars, pageVars, raceVars >>

SecureSpec == Init /\ [][SecureNext]_vars

\* The add-product form filled in every way, next to deletion, import and load.
FormNext ==
    \/ SubmitAddProduct /\ UNCHANGED << authVars, pageVars, raceVars >>
    \/ DeleteProduct /\ UNCHANGED << authVars, pageVars, raceVars >>
    \/ HandleImport /\ UNCHANGED << authVars, pageVars, raceVars >>
    \/ init /\ UNCHANGED << authVars, pageVars, raceVars >>
    \/ initFailedLoad /\ UNCHANGED << authVars, pageVars, raceVars >>

FormSpec == Init /\ [][FormNext]_vars

\* ------------------------------------------------------------------------
\* Access Guard: properties
\* ------------------------------------------------------------------------
\* The credentials are the right ones: the name is in the table and the
\* password is the one listed for it.
Correct(username, password) ==
    username \in DOMAIN PasswordOf /\ PasswordOf[username] = password

FailedAttempts == IF lsAttempts = None THEN 0 ELSE Val(lsAttempts)

LockedUntilLater == lsLockout # None /\ now < Val(lsLockout)

\* C5: from LoggedOut (not authenticated, no lockout recorded), an authenticate
\* call with incorrect credentials raises failedAttempts by exactly 1 and reports
\* remainingAttempts = maxAttempts - failedAttempts; the call that brings the
\* count to maxAttempts locks the guard until the time of the call plus the
\* lockout duration and reports isLockedOut = true.
C5_FailedAttemptCounts ==
    [][ \A u \in Usernames, p \in Passwords :
          ( /\ ~isAuthenticated
            /\ lsLockout = None
            /\ ~Correct(u, p)
            /\ authenticate(u, p) )
          => /\ FailedAttempts' = FailedAttempts + 1
             /\ authResult' # None
             /\ ~Val(authResult').success
             /\ ~isAuthenticated'
             /\ IF FailedAttempts + 1 = 3
                THEN /\ lsLockout' = Some(now + DelayTicks(15 * 60 * 1000))
                     /\ Val(authResult').isLockedOut
                ELSE /\ lsLockout' = None
                     /\ ~Val(authResult').isLockedOut
                     /\ Val(authResult').remainingAttempts = Some(3 - FailedAttempts') ]_vars

C5_Witness ==
    /\ ~isAuthenticated
    /\ authResult # None
    /\ Val(authResult).isLockedOut
    /\ Val(authResult).attempts = Some(3)
    /\ lsAttempts = Some(3)
    /\ lsLockout = Some(now + DelayTicks(15 * 60 * 1000))

\* C6: while the lockout is in force (now < lockoutUntil) every authenticate
\* call, the correct credentials included, returns success = false and
\* isLockedOut = true and changes nothing: neither the authentication state
\* nor the session nor failedAttempts nor lockoutUntil.
C6_LockedOutRefusesAll ==
    [][ \A u \in Usernames, p \in Passwords :
          (LockedUntilLater /\ authenticate(u, p))
          => /\ authResult' # None
             /\ ~Val(authResult').success
             /\ Val(authResult').isLockedOut
             /\ UNCHANGED << isAuthenticated, currentUser, lsSession, sessionTimer,
                             lsAttempts, lsLockout >> ]_vars

C6_Witness ==
    /\ LockedUntilLater
    /\ now > 0
    /\ lsAttempts = Some(3)
    /\ authResult # None
    /\ Val(authResult).isLockedOut
    /\ Val(authResult).attempts = None

\* C7: once the lockout window has elapsed (now >= lockoutUntil) the next
\* authenticate call clears lockoutUntil and failedAttempts and is handled as
\* from LoggedOut: the correct password succeeds and leaves the counter at 0, a
\* wrong one is the first failed attempt (remainingAttempts = maxAttempts - 1).
C7_ExpiredLockoutClears ==
    [][ \A u \in Usernames, p \in Passwords :
          (lsLockout # None /\ now >= Val(lsLockout) /\ authenticate(u, p))
          => /\ authResult' # None
             /\ lsLockout' = None
             /\ IF Correct(u, p)
                THEN /\ Val(authResult').success
                     /\ isAuthenticated'
                     /\ currentUser' = u
                     /\ FailedAttempts' = 0
                ELSE /\ ~Val(authResult').success
                     /\ ~Val(authResult').isLockedOut
                     /\ FailedAttempts' = 1
                     /\ Val(authResult').remainingAttempts = Some(3 - 1) ]_vars

C7_Witness ==
    /\ lockoutCleared
    /\ authResult # None
    /\ Val(authResult).success
    /\ isAuthenticated
    /\ lsLockout = None
    /\ lsAttempts = None

\* C8: from LoggedOut and not locked out, authenticate with a name of the
\* credential table and its password succeeds, sets isAuthenticated and
\* currentUser, resets failedAttempts to 0 with no lockout, and stores a session
\* whose user is that name and whose loginTime and lastActivity are the time of
\* the call.
C8_CorrectLoginOpensSession ==
    [][ \A u \in Usernames, p \in Passwords :
          ( /\ ~isAuthenticated
            /\ ~LockedUntilLater
            /\ Correct(u, p)
            /\ authenticate(u, p) )
          => /\ authResult' # None
             /\ Val(authResult').success
             /\ isAuthenticated'
             /\ currentUser' = u
             /\ lsAttempts' = None
             /\ lsLockout' = None
             /\ lsSession' = Some([user |-> u, loginTime |-> now, lastActivity |-> now]) ]_vars

C8_Witness ==
    /\ now > 0
    /\ authResult # None
    /\ Val(authResult).success
    /\ isAuthenticated
    /\ currentUser = "clerk"
    /\ lsSession = Some([user |-> "clerk", loginTime |-> now, lastActivity |-> now])
    /\ lsAttempts = None
    /\ lsLockout = None

\* A step in which the guard logs the user out by itself: the session timer
\* fires, or the periodic check finds the session expired.
AutoLogoutStep ==
    /\ isAuthenticated
    /\ lsSession # None
    /\ \/ SessionTimerFire
       \/ SessionCheck /\ ~isAuthenticated'

\* C9: while LoggedIn the guard performs no automatic logout at a time when
\* now - lastActivity < sessionTimeout (30 minutes), whatever the time since login.
C9_AutoLogoutOnlyWhenInactive ==
    [][ AutoLogoutStep
        => now - Val(lsSession).lastActivity >= DelayTicks(30 * 60 * 1000) ]_vars

\* C10: while LoggedIn an activity signal is followed, once the debounce delay
\* has passed, by an update of the session's lastActivity: no signal stays
\* unrecorded for longer than the delay while the user is still logged in.
C10_ActivityRecordedAfterDelay ==
    (isAuthenticated /\ lsSession # None /\ unrecordedSince # None)
    => now <= Val(unrecordedSince) + DelayTicks(30000)

\* A call of AuthenticationSystem.logout, manual or automatic.
LogoutCall == logout(FALSE) \/ logout(TRUE)

\* C11: a call of logout while the guard is logged out leaves isAuthenticated,
\* currentUser, the stored session record, the failed-attempt count and the
\* lockout end as they were.
C11_LogoutIdempotent ==
    [][ (~isAuthenticated /\ LogoutCall)
          => UNCHANGED << isAuthenticated, currentUser, lsSession, lsAttempts, lsLockout >>
      ]_vars

\* C12: no logout path (the guard's logout, the page's logout handlers) changes
\* the failed-attempt count or the lockout end.
C12_LogoutKeepsLockout ==
    [][ (LogoutCall \/ handleLogout) => UNCHANGED << lsAttempts, lsLockout >> ]_vars

\* C13: a page load leaves the guard authenticated, with the stored session's
\* user as currentUser and the session record kept, exactly when a session record
\* was stored whose lastActivity is less than 30 minutes old; otherwise it leaves
\* the guard not authenticated, currentUser null and no session record in storage.
C13_LoadMatchesStorage ==
    [][ Reload
          => IF lsSession # None
                /\ now - Val(lsSession).lastActivity < DelayTicks(30 * 60 * 1000)
             THEN /\ isAuthenticated'
                  /\ currentUser' = Val(lsSession).user
                  /\ lsSession' # None
                  /\ Val(lsSession').user = Val(lsSession).user
             ELSE /\ ~isAuthenticated'
                  /\ currentUser' = NULL
                  /\ lsSession' = None
      ]_vars

\* A page load has restored a session that was opened earlier.
C13_Witness ==
    /\ isAuthenticated
    /\ lsSession # None
    /\ currentUser = Val(lsSession).user
    /\ Val(lsSession).loginTime < now
    /\ Val(lsSession).lastActivity = now
    /\ sessionTimer = Some(now + sessionTimeout)

\* ------------------------------------------------------------------------
\* Catalog Ledger: properties
\* ------------------------------------------------------------------------
\* The identifiers processSale and restockProduct are called with.
Identifiers == {trim(identifier) : identifier \in FormIdentifiers}

\* C1: in every reachable state, every product of the in-memory ledger and of
\* the persisted store has a quantity of at least 0.
C1_QuantityNeverNegative ==
    /\ \A i \in DOMAIN inventory : inventory[i].quantity >= 0
    /\ \A id \in DOMAIN dbProducts : dbProducts[id].quantity >= 0

\* Two SKUs that are equal once letter case is ignored.
SameSkuIgnoringCase(a, b) == toUpperCase(a) = toUpperCase(b)

\* C2: in every reachable state, no two products of the ledger (in memory or in
\* the store) have SKUs that are equal under case-insensitive comparison.
C2_SkuUniqueIgnoringCase ==
    /\ \A i, j \in DOMAIN inventory :
          SameSkuIgnoringCase(inventory[i].sku, inventory[j].sku) => i = j
    /\ \A a, b \in DOMAIN dbProducts :
          SameSkuIgnoringCase(dbProducts[a].sku, dbProducts[b].sku) => a = b

\* C3: when processSale(identifier, q), q positive, resolves a product whose
\* quantity is at least q and returns without an error, the product has the old
\* quantity less q in the in-memory ledger and in the store, and the sales store
\* has grown by exactly one record, which carries the product's id, SKU and name,
\* quantity q, the product's price as unitPrice and unitPrice * q as total.
C3_SaleDecrementsAndRecords ==
    [][ \A identifier \in Identifiers :
          LET found == findProduct(identifier) IN
          \A q \in FormQuantities :
          ( /\ q > 0
            /\ lastError' = NoError
            /\ found # None
            /\ Val(found).quantity >= q
            /\ processSaleOf(found, q) )
          => LET product == Val(found) IN
             /\ product.id \in DOMAIN dbProducts'
             /\ dbProducts'[product.id].quantity = product.quantity - q
             /\ \E i \in DOMAIN inventory' :
                   /\ inventory'[i].id = product.id
                   /\ inventory'[i].quantity = product.quantity - q
             /\ Len(dbSales') = Len(dbSales) + 1
             /\ SubSeq(dbSales', 1, Len(dbSales)) = dbSales
             /\ dbSales'[Len(dbSales')] =
                   [ productId |-> product.id, sku |-> product.sku, name |-> product.name,
                     quantity |-> q, unitPrice |-> product.price,
                     total |-> product.price * q ]
      ]_vars

\* What does hold of every such sale: the store has the old quantity less q, so
\* has every in-memory entry of the product's id, a product found in memory is
\* still there, and the one sale record is as C3 says.
SaleDecrementsWhereHeld ==
    [][ \A identifier \in Identifiers :
          LET found == findProduct(identifier) IN
          \A q \in FormQuantities :
          ( /\ q > 0
            /\ lastError' = NoError
            /\ found # None
            /\ Val(found).quantity >= q
            /\ processSaleOf(found, q) )
          => LET product == Val(found) IN
             /\ product.id \in DOMAIN dbProducts'
             /\ dbProducts'[product.id].quantity = product.quantity - q
             /\ \A i \in DOMAIN inventory' :
                   inventory'[i].id = product.id
                      => inventory'[i].quantity = product.quantity - q
             /\ InMemory(identifier)
                   => \E i \in DOMAIN inventory' : inventory'[i].id = product.id
             /\ Len(dbSales') = Len(dbSales) + 1
             /\ SubSeq(dbSales', 1, Len(dbSales)) = dbSales
             /\ dbSales'[Len(dbSales')] =
                   [ productId |-> product.id, sku |-> product.sku, name |-> product.name,
                     quantity |-> q, unitPrice |-> product.price,
                     total |-> product.price * q ]
      ]_vars

\* C4: processSale(identifier, q) with q greater than the quantity of the product
\* it resolves throws the insufficient-stock error, and leaves the in-memory
\* ledger, the products store and the sales store as they were and emits no event.
C4_ShortStockRejected ==
    [][ \A identifier \in Identifiers :
          LET found == findProduct(identifier) IN
          \A q \in FormQuantities :
          ( /\ found # None
            /\ q > Val(found).quantity
            /\ processSaleOf(found, q) )
          => /\ lastError' = InsufficientStock
             /\ emitted' = << >>
             /\ UNCHANGED << inventory, dbProducts, dbSales >>
      ]_vars

\* After a sale of one unit, a sale of more than what is left was refused.
C4_Witness ==
    /\ lastError = InsufficientStock
    /\ emitted = << >>
    /\ Len(dbSales) = 1 /\ dbSales[1].quantity = 1
    /\ Len(inventory) = 1 /\ inventory[1].quantity = 1
    /\ dbProducts[1].quantity = 1

\* The products held in the in-memory ledger.
Held == {inventory[i] : i \in DOMAIN inventory}

\* An operation has failed with error and changed neither the in-memory ledger
\* nor the store, and has emitted nothing.
Rejected(error) ==
    /\ lastError' = error
    /\ emitted' = << >>
    /\ UNCHANGED << inventory, dbProducts, dbSales >>

\* C14: addProduct of a valid product whose SKU equals, ignoring case, the SKU of a product in the ledger fails with the duplicate-SKU error, and addProduct of one with a distinct SKU and the barcode of a product in the ledger fails with the duplicate-barcode error; either way memory, store and events are unchanged.
C14_DuplicateRejected ==
    [][ \A productData \in FormProducts :
          LET product == createProduct(productData)
              sameSku == \E p \in Held : SameSkuIgnoringCase(p.sku, product.sku)
              sameBarcode == Truthy(product.barcode) /\ \E p \in Held : p.barcode = product.barcode
          IN  (handleAddProduct(productData) /\ validateProduct(product) = NoError)
                => /\ sameSku => Rejected(DuplicateSku)
                   /\ (~sameSku /\ sameBarcode) => Rejected(DuplicateBarcode) ]_vars

\* C15: adjustStock(id, delta) on a product of the ledger with quantity + delta < 0 fails with the negative-quantity error and leaves the in-memory ledger, the store, the sales and the id counter as they were, and emits nothing.
C15_NegativeAdjustRejected ==
    [][ \A productId \in ProductIds :
          LET found == FindById(productId) IN
          found # None
            => \A delta \in -MaxQuantity..MaxQuantity :
                 (Val(found).quantity + delta < 0 /\ adjustStock(productId, delta))
                   => Rejected(NegativeQuantity) /\ UNCHANGED nextId ]_vars

\* An adjustment was refused for a product with nothing in stock (no product was
\* created since the ledger was loaded or imported, so the error is adjustStock's).
C15_Witness ==
    /\ lastError = NegativeQuantity
    /\ emitted = << >>
    /\ nextId = 2
    /\ \E p \in Held : p.quantity = 0 /\ dbProducts[p.id].quantity = 0

\* processSale(identifier, n) succeeds and leaves the product with quantity.
SaleBackTo(identifier, n, quantity) ==
    /\ processSale(identifier, n)
    /\ lastError' = NoError
    /\ findProduct(identifier)' # None
    /\ Val(findProduct(identifier)').quantity = quantity
    /\ UNCHANGED << authVars, pageVars, raceVars >>

\* C16: for a product of the ledger and a positive n, restockProduct(identifier, n) succeeds, and processSale(identifier, n) called next succeeds and leaves the product with the quantity it had before the restock.
C16_RestockThenSale ==
    [][ \A identifier \in Identifiers, n \in 1..MaxQuantity :
          \A quantity \in -MaxQuantity..MaxQuantity :
            LET found == findProduct(identifier) IN
            (found # None /\ Val(found).quantity = quantity /\ restockProduct(identifier, n))
              => /\ lastError' = NoError
                 /\ (ENABLED SaleBackTo(identifier, n, quantity))' ]_vars

\* C17: sale records are append-only: no step of the ledger, importData included, removes or changes a sale record that is in the store.
C17_SalesAppendOnly ==
    [][ /\ Len(dbSales') >= Len(dbSales)
        /\ \A i \in DOMAIN dbSales : dbSales'[i] = dbSales[i] ]_vars

\* SecurityUtils.validateImportData: products is there and is a list, and every
\* product has its required fields.
validateImportData(data) ==
    /\ "products" \in DOMAIN data
    /\ \A i \in DOMAIN data.products :
          {"sku", "name", "category", "price", "quantity"} \subseteq DOMAIN data.products[i]

\* C18: an import of a document that fails the validation (no products list, or a product without a required field) is rejected and leaves the persisted products, the persisted sales and the in-memory ledger unchanged.
C18_InvalidImportChangesNothing ==
    [][ \A data \in ImportFiles :
          (~validateImportData(data) /\ handleImport(data))
            => /\ lastError' # NoError
               /\ UNCHANGED << inventory, dbProducts, dbSales >> ]_vars

\* C19: product ids are never reused: the id counter, from which createProduct takes every new id, never goes back, whatever the ledger does (create, add, delete, import, load from the store).
C19_IdCounterNeverGoesBack ==
    [][ nextId' >= nextId ]_vars

\* The fields the validation is to refuse: a required field that is empty or is
\* not a number, a negative price, quantity or minStock, a sku or name of fewer
\* than 3 characters.
BadNumber(n) == n = NaN \/ n < 0

BadFields(product) ==
    \/ Len(product.sku) < 3 \/ Len(product.name) < 3 \/ product.category = ""
    \/ BadNumber(product.price) \/ BadNumber(product.quantity) \/ BadNumber(product.minStock)

ValidationErrors ==
    { RequiredField, NegativePrice, NegativeQuantity, NegativeMinStock, ShortSku, ShortName }

\* C20: createProduct then addProduct of form data with a required field empty or not a number, a negative price, quantity or minStock, or a sku or name under 3 characters fails with a validation error and leaves the in-memory ledger and the store as they were.
C20_BadFieldsRejected ==
    [][ \A productData \in FormFields :
          (BadFields(createProduct(productData)) /\ handleAddProduct(productData))
            => /\ lastError' \in ValidationErrors
               /\ UNCHANGED << inventory, dbProducts >> ]_vars

\* How many times event is in a list of emitted events.
Times(event, events) == Cardinality({i \in DOMAIN events : events[i] = event})

\* What a successful updateProduct(product) is to leave behind: the store's
\* record and the in-memory entry of product.id are the product, and
\* productUpdated was emitted once.
UpdatedEverywhere(product) ==
    /\ product.id \in DOMAIN dbProducts' /\ dbProducts'[product.id] = product
    /\ \E i \in DOMAIN inventory' : inventory'[i].id = product.id
    /\ \A i \in DOMAIN inventory' : inventory'[i].id = product.id => inventory'[i] = product
    /\ Times("productUpdated", emitted') = 1

\* C21: after a successful updateProduct(product), here the one restockProduct makes, the persisted record with product.id and the in-memory entry with product.id are both the given product, and productUpdated has been emitted exactly once.
C21_UpdateReachesBothCopies ==
    [][ \A identifier \in Identifiers, quantity \in FormQuantities :
          LET found == findProduct(identifier) IN
          (found # None /\ restockProduct(identifier, quantity) /\ lastError' = NoError)
            => UpdatedEverywhere([Val(found) EXCEPT !.quantity = @ + quantity]) ]_vars

\* The same where the in-memory ledger holds an entry with the product's id.
UpdateReachesCopiesHeld ==
    [][ \A identifier \in Identifiers, quantity \in FormQuantities :
          LET found == findProduct(identifier) IN
          (/\ found # None
           /\ \E i \in DOMAIN inventory : inventory[i].id = Val(found).id
           /\ restockProduct(identifier, quantity) /\ lastError' = NoError)
            => UpdatedEverywhere([Val(found) EXCEPT !.quantity = @ + quantity]) ]_vars

\* What findProduct is to return: the first in-memory product whose SKU is the
\* identifier ignoring case, else the product with that barcode in memory, else
\* the one in the store, else nothing.
FoundIgnoringCase(identifier) ==
    LET bySku == FindFirst(inventory, {i \in DOMAIN inventory :
                                         SameSkuIgnoringCase(inventory[i].sku, identifier)})
    IN  IF bySku # None THEN bySku ELSE getProductByBarcode(identifier)

\* C22: findProduct(identifier) returns the in-memory product whose SKU equals the identifier ignoring case when there is one, otherwise the product with that barcode (memory, then store), otherwise nothing.
C22_FindBySkuThenBarcode ==
    \A identifier \in Identifiers : findProduct(identifier) = FoundIgnoringCase(identifier)

\* The permissions that are true for a clerk or base user.
ViewAndSell == {"canViewInventory", "canProcessSales"}

\* C23: getUserPermissions gives admin every permission; manager add, edit, restock, export and import but not delete; a clerk, any other user and no user only view-inventory and process-sales, every other permission being false.
C23_PermissionsByRole ==
    LET permissions == getUserPermissions IN
    IF currentUser = "admin" THEN \A key \in DOMAIN permissions : permissions[key]
    ELSE IF currentUser = "manager"
         THEN /\ permissions.canAddProducts /\ permissions.canEditProducts
              /\ permissions.canRestock /\ permissions.canExportData
              /\ permissions.canImportData /\ ~permissions.canDeleteProducts
    ELSE \A key \in DOMAIN permissions : permissions[key] <=> key \in ViewAndSell

\* The same for the users that have a role of their own.
PermissionsOfNamedRoles ==
    currentUser \in {"admin", "manager", "clerk"} => C23_PermissionsByRole

\* C24: when the store rejects the write of a ledger operation (the operation ends with the store's error), the in-memory ledger is as it was before the call.
C24_FailedWriteLeavesMemory ==
    [][ lastError' = ConstraintError => inventory' = inventory ]_vars

\* C25: a failure to read the store while the ledger initialises is reported (init ends with an error) and no sample data is seeded: the store is left as it was.
C25_FailedLoadReported ==
    [][ initFailedLoad => (lastError' # NoError /\ UNCHANGED dbProducts) ]_vars

\* C26: an operation that rejects emits no event, no event is emitted twice by one operation, and saleProcessed is emitted only by a sale that succeeded and whose record is in the store.
C26_EventsOnlyOnSuccess ==
    [][ /\ lastError' # NoError => emitted' = << >>
        /\ \A i \in DOMAIN emitted' : Times(emitted'[i], emitted') = 1
        /\ Times("saleProcessed", emitted') = 1
             => lastError' = NoError /\ Len(dbSales') = Len(dbSales) + 1 ]_vars

\* C27: whatever logins and logouts came before, one submission of the sale form makes exactly one processSale call, and exactly one application object is wired to the form and to the store.
C27_OneSalePerSubmission ==
    [][ SubmitSale => (saleCalls' = 1 /\ alive = 1) ]_vars

\* The quantities of the calls that succeeded, added up.
SoldBy(c) == IF calls[c].pc = "sold" THEN calls[c].quantity ELSE 0

\* C28: with two processSale calls for one product in flight, the product's quantity is never negative, and once both have returned the quantity in memory and in the store is the quantity at the start less the quantities of the sales that succeeded, each of which has one sale record.
C28_ConcurrentSalesAddUp ==
    started # None =>
      LET id == Val(started).id
          left == Val(started).quantity - SoldBy(1) - SoldBy(2)
      IN  /\ id \in DOMAIN dbProducts => dbProducts[id].quantity >= 0
          /\ \A i \in DOMAIN inventory : inventory[i].id = id => inventory[i].quantity >= 0
          /\ Finished =>
               /\ id \in DOMAIN dbProducts /\ dbProducts[id].quantity = left
               /\ \A i \in DOMAIN inventory : inventory[i].id = id => inventory[i].quantity = left
               /\ Len(dbSales) = Cardinality({c \in Callers : calls[c].pc = "sold"})

\* C29: in every reachable state the guard is not both authenticated and locked out (a lockout time in the future), and it is authenticated exactly when currentUser is not null.
C29_OneGuardState ==
    /\ ~(isAuthenticated /\ isLockedOut)
    /\ isAuthenticated <=> currentUser # NULL

\* The second half alone: authenticated exactly when a user is set.
AuthenticatedIffUser == isAuthenticated <=> currentUser # NULL

\* C30: every addProduct, deleteProduct and processSale of SecureInventoryManager has the outcome and reaches the products, ids, quantities and sales that the same call of InventoryManager has from the same state.
C30_SecureRefinesPlain ==
    [][ /\ \A identifier \in FormIdentifiers \cup { << "m","a","r","0","0","1" >> },
              quantity \in FormQuantities :
              secureProcessSale(trim(identifier), quantity)
                => processSale(trim(identifier), quantity)
        /\ \A productId \in ProductIds :
              secureDeleteProduct(productId) => deleteProduct(productId)
        /\ \A productData \in FormFields :
              (nextId <= MaxId /\ nextId' = nextId + 1 /\ secureAddProduct(createProduct(productData)))
                => handleAddProduct(productData)
      ]_vars

\* The calls that find no product or too little stock, and every deleteProduct, do end as InventoryManager's.
SecureRejectsAsPlain ==
    [][ /\ \A identifier \in FormIdentifiers \cup { << "m","a","r","0","0","1" >> },
              quantity \in FormQuantities :
              ( /\ lastError' \in {NotFound, InsufficientStock}
                /\ secureProcessSale(trim(identifier), quantity) )
                => processSale(trim(identifier), quantity)
        /\ \A productId \in ProductIds :
              secureDeleteProduct(productId) => deleteProduct(productId)
      ]_vars

=============================================================================
